---------------------------- MODULE Spec2Model ----------------------------
(***************************************************************************)
(* Real-time inbox synchronisation of the RentalApp.                       *)
(*                                                                         *)
(*  - server: the socket.io authentication middleware and the connection   *)
(*    handler of the backend entry point (src/unnamed/part_000);           *)
(*  - client: the chats screen (src/app/(tabs)/chats.tsx): loadChats, the  *)
(*    focus effect, the inbox socket effect, handleDelete, the search      *)
(*    box, the push registration effect and renderItem.                    *)
(*  - auth context: the onAuthStateChanged callback of the AuthProvider    *)
(*    (src/context/AuthContext.tsx).                                       *)
(*                                                                         *)
(* Each part has its own specification; the variables of the other part    *)
(* stay at their initial values.                                           *)
(***************************************************************************)
EXTENDS Integers, Sequences, FiniteSets, Bags, TLC

\* ------------------------------------------------------------------ bounds
\* Number of server-side connection slots (sockets).
NumConns == 2
\* Snapshot fetches (loadChats calls) that may be in flight together.
MaxFetches == 2
\* Delete requests sent and not failed (in flight or committed).
MaxDeletes == 1
\* Largest last-message timestamp of a thread in the store.
MaxTs == 1
\* Runs of the socket effect that are pending or left a socket open
\* outside the ref.
MaxRuns == 1
\* Push registrations (registerForPushNotifications calls) in flight.
MaxPushRuns == 1
\* Auth-state callbacks of the AuthProvider awaiting their sync-user request.
MaxSyncs == 2

\* ------------------------------------------------------------ small domains
\* Firebase uids that have a record in the Mongo user directory.
Users == {"A", "B"}
\* A uid Firebase verifies but that has no record in the user directory.
GhostUid == "G"
Uids == Users \cup {GhostUid}
\* Chat thread ids.
Threads == {"T1", "T2"}
Conns == 1..NumConns
\* Chat ids of the threads of the store, as the client lists them.
ChatIds == {1, 2}
\* firebaseUser of useAuth() when nobody is signed in.
NoUser == "null"

VARIABLES
  \* ---- server (src/unnamed/part_000)
  phase,        \* per connection: position in the handshake / life cycle
  handshake,    \* per connection: socket.handshake.auth.token
  socketData,   \* per connection: socket.data {firebaseUID, mongoUserId}
  rooms,        \* per connection: the set of rooms (channels) it is in
  rejectReason, \* per connection: message of the Error given to next()
  lookup,       \* per connection: outcome of User.findOne (history)
  lastCall,     \* per connection and thread: last joinRoom/leaveRoom (history)
  \* ---- chats screen (src/app/(tabs)/chats.tsx)
  firebaseUser, \* useAuth().firebaseUser: a uid or NoUser
  mounted,      \* the screen component is mounted
  focused,      \* the screen has focus (useFocusEffect)
  chatItems,    \* useState: the local thread list
  loading,      \* useState: the loading flag
  fetches,      \* bag of loadChats calls in flight
  deletes,      \* bag of confirmed handleDelete requests in flight
  pendingRuns,  \* bag of socket effect runs awaiting getIdToken
  socketRef,    \* socketRef.current
  orphans,      \* number of open sockets no ref points to
  output,       \* what the last step showed in an alert / wrote to the console
  searchTerm,   \* useState: the text of the search box
  filteredChatItems, \* useState: the list handed to the FlatList
  \* ---- push registration effect of the chats screen
  pushSeen,     \* firebaseUser of the render whose push effect ran last
  pushRuns,     \* bag of registerForPushNotifications calls in flight
  posted,       \* users for whom a push-token request reached the network
  \* ---- renderItem of the FlatList, taken alone
  renderInput,  \* the viewer and the thread summary renderItem is called with
  renderOutput, \* the rows renderItem returned so far
  \* ---- AuthProvider (src/context/AuthContext.tsx)
  fbAuth,       \* the user of FIREBASE_AUTH as the last callback reported it
  authState,    \* useState: firebaseUser, mongoUser, isLoading of the context
  syncs,        \* bag of auth-state callbacks inside their try block
  callbackFinished, \* an auth-state callback has run to its end (history)
  \* ---- Thread Store (backend, behind /api/chat/threads)
  store,        \* per chat id: last-message timestamp
  hidden,       \* pairs <<user, chat id>>: thread deleted for that user
  locallyDeleted \* pairs <<user, chat id>> removed by a confirmed delete (history)

serverVars == <<phase, handshake, socketData, rooms, rejectReason, lookup, lastCall>>
screenVars == <<firebaseUser, mounted, focused, chatItems, loading, fetches,
                deletes, pendingRuns, socketRef, orphans, output>>
storeVars == <<store, hidden, locallyDeleted>>
searchVars == <<searchTerm, filteredChatItems>>
pushVars == <<pushSeen, pushRuns, posted>>
renderVars == <<renderInput, renderOutput>>
authVars == <<fbAuth, authState, syncs, callbackFinished>>
\* What the list logic of the screen neither reads nor writes.
sideVars == <<pushVars, renderVars, authVars>>
clientVars == <<screenVars, storeVars, searchVars, sideVars>>
vars == <<serverVars, clientVars>>

\* ================================================================= server
\* The not-found branch reusing the message of the catch block.
ErrUserNotFoundAsCatch == "Unauthorized"

\* Error messages of the middleware.
ErrMissing == "Authentication token missing"
ErrUserNotFound == "User not found in database"
ErrUnauthorized == "Unauthorized"
NoError == "none"

\* Values of socket.handshake.auth.token: undefined, the empty string, a
\* string Firebase rejects, or a valid ID token of some uid.
Tokens ==
  {[kind |-> "undefined", uid |-> "undefined"],
   [kind |-> "empty", uid |-> "undefined"],
   [kind |-> "bad", uid |-> "undefined"]}
  \cup {[kind |-> "valid", uid |-> u] : u \in Uids}

NoToken == [kind |-> "undefined", uid |-> "undefined"]

\* `!token`: undefined and the empty string are falsy.
TokenMissing(token) == token.kind \in {"undefined", "empty"}

\* admin.auth().verifyIdToken(token): the decoded uid, or it throws.
VerifyIdToken(token) ==
  IF token.kind = "valid" THEN [ok |-> TRUE, uid |-> token.uid]
  ELSE [ok |-> FALSE, uid |-> "undefined"]

\* user._id.toString() of the directory record of a uid.
MongoIdOf(uid) == IF uid = "A" THEN "mA" ELSE IF uid = "B" THEN "mB" ELSE "undefined"
MongoIds == {MongoIdOf(u) : u \in Users}

\* User.findOne({ firebaseUID: uid }).lean(): the record, or null.
UserFindOne(uid) ==
  IF uid \in Users THEN [found |-> TRUE, _id |-> MongoIdOf(uid)]
  ELSE [found |-> FALSE, _id |-> "undefined"]

\* Room names: `user-inbox-${mongoUserId}` and a chat id.
InboxChannel(mongoUserId) == [kind |-> "user-inbox", key |-> mongoUserId]
ThreadChannel(t) == [kind |-> "chat", key |-> t]
InboxChannels == {InboxChannel(m) : m \in MongoIds}
ThreadChannels == {ThreadChannel(t) : t \in Threads}
\* What a client can send as the argument of joinRoom / leaveRoom.
Channels == InboxChannels \cup ThreadChannels

NoData == [firebaseUID |-> "undefined", mongoUserId |-> "undefined"]

\* A join that toggles the membership instead of adding it.
SocketJoinToggles(rs, ch) == IF ch \in rs THEN rs \ {ch} ELSE rs \cup {ch}

\* socket.join(room) / socket.leave(room) on the adapter's Set of rooms.
\* (The room socket.io names after the socket's own id is left out: no
\* client can name it and nothing is broadcast to it here.)
SocketJoin(rs, ch) == rs \cup {ch}
SocketLeave(rs, ch) == rs \ {ch}

InitServer ==
  /\ phase = [c \in Conns |-> "idle"]
  /\ handshake = [c \in Conns |-> NoToken]
  /\ socketData = [c \in Conns |-> NoData]
  /\ rooms = [c \in Conns |-> {}]
  /\ rejectReason = [c \in Conns |-> NoError]
  /\ lookup = [c \in Conns |-> "pending"]
  /\ lastCall = [c \in Conns |-> [t \in Threads |-> "none"]]

\* A next() that lets the connection through whatever it is given.
MiddlewareNextIgnoresError(c, err) ==
  /\ phase' = [phase EXCEPT ![c] = "authorized"]
  /\ rejectReason' = [rejectReason EXCEPT ![c] = err]

\* next(err) of the middleware: with an error the connection is refused,
\* without one socket.io goes on to the 'connection' listeners.
MiddlewareNext(c, err) ==
  /\ phase' = [phase EXCEPT ![c] = IF err = NoError THEN "authorized" ELSE "rejected"]
  /\ rejectReason' = [rejectReason EXCEPT ![c] = err]

\* A client opens a connection: io.use middleware up to its first await.
Connect(c, token) ==
  /\ phase[c] = "idle"
  /\ handshake' = [handshake EXCEPT ![c] = token]
  /\ IF TokenMissing(token)
       THEN MiddlewareNext(c, ErrMissing)
       ELSE /\ phase' = [phase EXCEPT ![c] = "verifying"]
            /\ UNCHANGED rejectReason
  /\ UNCHANGED <<clientVars, socketData, rooms, lookup, lastCall>>

\* verifyIdToken settles: on success the middleware awaits User.findOne,
\* on a throw the catch block refuses with 'Unauthorized'.
VerifyDone(c) ==
  /\ phase[c] = "verifying"
  /\ LET decoded == VerifyIdToken(handshake[c]) IN
       IF decoded.ok
         THEN /\ phase' = [phase EXCEPT ![c] = "finding"]
              /\ UNCHANGED rejectReason
         ELSE MiddlewareNext(c, ErrUnauthorized)
  /\ UNCHANGED <<clientVars, handshake, socketData, rooms, lookup, lastCall>>

\* User.findOne settles: res = "answers" (the record or null) or "throws"
\* (no database connection, see the start-up without MONGO_URI).
FindDone(c, res) ==
  /\ phase[c] = "finding"
  /\ LET decoded == VerifyIdToken(handshake[c])
         user == UserFindOne(decoded.uid) IN
       IF res = "throws"
         THEN /\ MiddlewareNext(c, ErrUnauthorized)
              /\ lookup' = [lookup EXCEPT ![c] = "threw"]
              /\ UNCHANGED socketData
         ELSE IF ~user.found
           THEN /\ MiddlewareNext(c, ErrUserNotFound)
                /\ lookup' = [lookup EXCEPT ![c] = "null"]
                /\ UNCHANGED socketData
           ELSE /\ socketData' = [socketData EXCEPT ![c] =
                      [firebaseUID |-> decoded.uid, mongoUserId |-> user._id]]
                /\ lookup' = [lookup EXCEPT ![c] = "found"]
                /\ MiddlewareNext(c, NoError)
  /\ UNCHANGED <<clientVars, handshake, rooms, lastCall>>

\* A connection handler that registers the listeners and joins nothing.
OnConnectionWithoutJoin(c) ==
  /\ phase[c] = "authorized"
  /\ phase' = [phase EXCEPT ![c] = "connected"]
  /\ UNCHANGED <<clientVars, handshake, socketData, rooms, rejectReason, lookup,
                 lastCall>>

\* io.on('connection'): joins the inbox room of socket.data.mongoUserId and
\* registers the joinRoom / leaveRoom / disconnect listeners.
OnConnection(c) ==
  /\ phase[c] = "authorized"
  /\ phase' = [phase EXCEPT ![c] = "connected"]
  /\ rooms' = [rooms EXCEPT ![c] = SocketJoin(@, InboxChannel(socketData[c].mongoUserId))]
  /\ UNCHANGED <<clientVars, handshake, socketData, rejectReason, lookup,
                 lastCall>>

\* socket.on('joinRoom', chatId => socket.join(chatId))
JoinRoom(c, ch) ==
  /\ phase[c] = "connected"
  /\ rooms' = [rooms EXCEPT ![c] = SocketJoin(@, ch)]
  /\ lastCall' = IF ch.kind = "chat"
                   THEN [lastCall EXCEPT ![c][ch.key] = "join"]
                   ELSE lastCall
  /\ UNCHANGED <<clientVars, phase, handshake, socketData, rejectReason,
                 lookup>>

\* socket.on('leaveRoom', chatId => socket.leave(chatId))
LeaveRoom(c, ch) ==
  /\ phase[c] = "connected"
  /\ rooms' = [rooms EXCEPT ![c] = SocketLeave(@, ch)]
  /\ lastCall' = IF ch.kind = "chat"
                   THEN [lastCall EXCEPT ![c][ch.key] = "leave"]
                   ELSE lastCall
  /\ UNCHANGED <<clientVars, phase, handshake, socketData, rejectReason,
                 lookup>>

\* A cleanup that leaves the rooms as they are.
LeaveAllKeepsRooms(rs) == rs

\* Socket._onclose of socket.io: before the 'disconnect' listeners run, the
\* socket leaves every room it is in (leaveAll).
LeaveAll(rs) == {}

\* A disconnect that takes every socket out of the user's inbox room.
DisconnectEmptiesInbox(c) ==
  /\ phase[c] = "connected"
  /\ phase' = [phase EXCEPT ![c] = "closed"]
  /\ rooms' = [d \in Conns |->
        IF d = c THEN {}
        ELSE SocketLeave(rooms[d], InboxChannel(socketData[c].mongoUserId))]
  /\ UNCHANGED <<clientVars, handshake, socketData, rejectReason, lookup,
                 lastCall>>

\* The transport of a connected socket closes: socket.io's cleanup, then
\* socket.on('disconnect', () => socket.leave(`user-inbox-${mongoUserId}`)).
Disconnect(c) ==
  /\ phase[c] = "connected"
  /\ phase' = [phase EXCEPT ![c] = "closed"]
  /\ rooms' = [rooms EXCEPT ![c] =
        SocketLeave(LeaveAll(@), InboxChannel(socketData[c].mongoUserId))]
  /\ UNCHANGED <<clientVars, handshake, socketData, rejectReason, lookup,
                 lastCall>>

NextServer ==
  \/ \E c \in Conns, token \in Tokens : Connect(c, token)
  \/ \E c \in Conns : VerifyDone(c)
  \/ \E c \in Conns, res \in {"answers", "throws"} : FindDone(c, res)
  \/ \E c \in Conns : OnConnection(c)
  \/ \E c \in Conns, ch \in Channels : JoinRoom(c, ch)
  \/ \E c \in Conns, ch \in Channels : LeaveRoom(c, ch)
  \/ \E c \in Conns : Disconnect(c)

\* ====================================================== alerts and console
\* Titles of the alerts and first arguments of the console calls.
AlertError == "Error"
LogConnected == "Inbox socket connected"
LogDisconnected == "Inbox socket disconnected"
LogLoadFailed == "Failed to load chat threads"
LogSocketFailed == "Socket init failed"
LogDeleteFailed == "Delete chat failed:"
AlertPermissionDenied == "Permission Denied"
LogPushFailed == "Failed to send push token to backend"
Nothing == "none"

\* A step that shows no alert and logs no error.
Quiet == [alert |-> Nothing, log |-> Nothing]

\* =========================================================== Thread Store
\* Strings are sequences of characters.
Chars == {"a", "b", "c", "d", "l", "o", "x", "A", "B", "C"}

\* The thread of chat id 1 is about A's listing "Ab" and B inquired; the
\* thread of chat id 2 is about B's listing "Cd" and A inquired.
ListingTitleOf(t) == IF t = 1 THEN <<"A", "b">> ELSE <<"C", "d">>
ListingOwnerOf(t) == IF t = 1 THEN "A" ELSE "B"
\* Display names of the users, and the other participant of a thread.
DisplayNameOf(u) == IF u = "A" THEN <<"A", "l">> ELSE <<"B", "o">>
CounterpartOf(u) == IF u = "A" THEN "B" ELSE "A"

\* A ChatListItem as the list endpoint builds it for user u, reduced to the
\* fields the screen reads.
Item(u, t, ts) ==
  [chatId |-> t,
   lastMessageTimestamp |-> ts,
   listingTitle |-> ListingTitleOf(t),
   listingOwnerFirebaseUID |-> ListingOwnerOf(t),
   recipientName |-> DisplayNameOf(CounterpartOf(u))]

Ids(items) == {items[i].chatId : i \in 1..Len(items)}

\* Order of the list endpoint: last-message timestamp descending, ties by
\* chat id ascending.
Before(a, b) ==
  \/ a.lastMessageTimestamp > b.lastMessageTimestamp
  \/ /\ a.lastMessageTimestamp = b.lastMessageTimestamp
     /\ a.chatId < b.chatId

RECURSIVE SortItems(_)
SortItems(S) ==
  IF S = {} THEN <<>>
  ELSE LET first == CHOOSE a \in S : \A b \in S \ {a} : Before(a, b)
       IN <<first>> \o SortItems(S \ {first})

\* GET /api/chat/threads for user u: the threads u has not deleted.
ListThreads(u) ==
  SortItems({Item(u, t, store[t]) : t \in {x \in ChatIds : <<u, x>> \notin hidden}})

InitStore ==
  /\ store = [t \in ChatIds |-> 0]
  /\ hidden = {}
  /\ locallyDeleted = {}

\* Somebody sends a message in thread t: its last-message timestamp grows.
NewMessage(t) ==
  /\ store[t] < MaxTs
  /\ store' = [store EXCEPT ![t] = @ + 1]
  /\ output' = Quiet
  /\ UNCHANGED <<serverVars, sideVars, searchVars, hidden, locallyDeleted,
                 firebaseUser, mounted, focused, chatItems, loading, fetches,
                 deletes, pendingRuns, socketRef, orphans>>

\* =========================================================== chats screen
BagAdd(B, e) == B (+) SetToBag({e})
BagRemove(B, e) == B (-) SetToBag({e})

\* socketRef.current when it is null or a socket that was disconnected
\* (`socketRef.current?.disconnect()` does nothing more on either).
NullSocket == [user |-> NoUser, open |-> FALSE]

\* ---- search box

\* String.prototype.toLowerCase, character by character.
LowerChar(c) ==
  CASE c = "A" -> "a" [] c = "B" -> "b" [] c = "C" -> "c" [] OTHER -> c
ToLowerCase(str) == [i \in 1..Len(str) |-> LowerChar(str[i])]

\* String.prototype.includes: term occurs in str as a substring.
Includes(str, term) ==
  \E i \in 1..(Len(str) + 1) :
    /\ i + Len(term) - 1 <= Len(str)
    /\ SubSeq(str, i, i + Len(term) - 1) = term

\* A filter that compares the term as typed with the lower-cased fields.
FilterChatItemsAsTyped(items, term) ==
  IF term = <<>> THEN items
  ELSE SelectSeq(items, LAMBDA item :
         \/ Includes(ToLowerCase(item.listingTitle), term)
         \/ Includes(ToLowerCase(item.recipientName), term))

\* The body of the search useEffect: what it hands to setFilteredChatItems
\* for the list `items` and the search term `term`.
FilterChatItems(items, term) ==
  IF term = <<>> THEN items
  ELSE LET lowercasedTerm == ToLowerCase(term) IN
       SelectSeq(items, LAMBDA item :
         \/ Includes(ToLowerCase(item.listingTitle), lowercasedTerm)
         \/ Includes(ToLowerCase(item.recipientName), lowercasedTerm))

\* What the user can type into the search box.
SearchTerms ==
  {<<>>, <<"b">>, <<"A", "B">>, <<"c">>, <<"B", "O">>, <<"x">>}

InitScreen ==
  /\ searchTerm = <<>>
  /\ filteredChatItems = <<>>
  /\ output = Quiet
  /\ firebaseUser = NoUser
  /\ mounted = TRUE
  /\ focused = FALSE
  /\ chatItems = <<>>
  /\ loading = TRUE
  /\ fetches = EmptyBag
  /\ deletes = EmptyBag
  /\ pendingRuns = EmptyBag
  /\ socketRef = NullSocket
  /\ orphans = 0

\* Number of loadChats calls of user u in flight.
InFlightFor(u) ==
  LET mine == {f \in BagToSet(fetches) : f.user = u}
  IN BagCardinality([f \in mine |-> fetches[f]])

\* A loadChats that returns at once when asked for a refresh.
LoadChatsIgnoresRefresh(user, isRefreshing) ==
  IF user = NoUser \/ isRefreshing
    THEN [fetches |-> fetches, loading |-> loading]
    ELSE [fetches |-> BagAdd(fetches,
                        [user |-> user, stage |-> "sent", data |-> <<>>]),
          loading |-> TRUE]

\* The loadChats call of `user` as it is right after being issued.
Issued(user) == [user |-> user, stage |-> "sent", data |-> <<>>]

\* loadChats(isRefreshing), called from a closure whose firebaseUser is
\* `user`, up to its first await: the fetches and the loading flag after.
\* (isRefreshing decides about setLoading(true) alone; nothing reads it
\* once the call is in flight.)
LoadChats(user, isRefreshing) ==
  IF user = NoUser
    THEN [fetches |-> fetches, loading |-> loading]
    ELSE [fetches |-> BagAdd(fetches,
                        [user |-> user, stage |-> "sent", data |-> <<>>]),
          loading |-> IF isRefreshing THEN loading ELSE TRUE]

\* How the promise of loadChats settles for its caller when the request
\* went well ("ok") or not ("failed"): the catch block logs and does not
\* rethrow, so the promise is fulfilled with undefined either way.
LoadChatsPromise(outcome) ==
  IF outcome = "ok" THEN [state |-> "fulfilled", value |-> "undefined"]
  ELSE [state |-> "fulfilled", value |-> "undefined"]

\* Room for one more loadChats call within the bound.
CanIssue == BagCardinality(fetches) < MaxFetches

\* The list endpoint answers a request: the snapshot is read from the
\* store now and travels back to the client.
ServerAnswer(f) ==
  /\ BagIn(f, fetches)
  /\ f.stage = "sent"
  /\ fetches' = BagAdd(BagRemove(fetches, f),
                       [f EXCEPT !.stage = "ok", !.data = ListThreads(f.user)])
  /\ output' = Quiet
  /\ UNCHANGED <<serverVars, sideVars, searchVars, firebaseUser, mounted,
                 focused, chatItems, loading, deletes, pendingRuns, socketRef,
                 orphans, storeVars>>

\* A success path that stores the snapshot in reverse order.
FetchSucceedReversed(f) ==
  /\ BagIn(f, fetches)
  /\ f.stage = "ok"
  /\ fetches' = BagRemove(fetches, f)
  /\ chatItems' = IF mounted
                    THEN [i \in 1..Len(f.data) |-> f.data[Len(f.data) + 1 - i]]
                    ELSE chatItems
  /\ loading' = IF mounted THEN FALSE ELSE loading
  /\ filteredChatItems' = IF mounted THEN FilterChatItems(chatItems', searchTerm)
                           ELSE filteredChatItems
  /\ output' = Quiet
  /\ UNCHANGED <<serverVars, sideVars, searchTerm, firebaseUser, mounted,
                 focused, deletes, pendingRuns, socketRef, orphans, storeVars>>

\* A success path that keeps the items of the old list the snapshot lacks.
FetchSucceedMerges(f) ==
  /\ BagIn(f, fetches)
  /\ f.stage = "ok"
  /\ fetches' = BagRemove(fetches, f)
  /\ chatItems' = IF mounted
                    THEN f.data \o SelectSeq(chatItems,
                                     LAMBDA item : item.chatId \notin Ids(f.data))
                    ELSE chatItems
  /\ loading' = IF mounted THEN FALSE ELSE loading
  /\ filteredChatItems' = IF mounted THEN FilterChatItems(chatItems', searchTerm)
                           ELSE filteredChatItems
  /\ output' = Quiet
  /\ UNCHANGED <<serverVars, sideVars, searchTerm, firebaseUser, mounted,
                 focused, deletes, pendingRuns, socketRef, orphans, storeVars>>

\* The rest of loadChats after a successful response: setChatItems(data),
\* then finally setLoading(false); after the render the search effect
\* recomputes the filtered list. On an unmounted screen React drops the
\* state updates.
FetchSucceed(f) ==
  /\ BagIn(f, fetches)
  /\ f.stage = "ok"
  /\ fetches' = BagRemove(fetches, f)
  /\ chatItems' = IF mounted THEN f.data ELSE chatItems
  /\ loading' = IF mounted THEN FALSE ELSE loading
  /\ filteredChatItems' = IF mounted THEN FilterChatItems(chatItems', searchTerm)
                           ELSE filteredChatItems
  /\ output' = Quiet
  /\ UNCHANGED <<serverVars, sideVars, searchTerm, firebaseUser, mounted,
                 focused, deletes, pendingRuns, socketRef, orphans, storeVars>>

\* A catch block that empties the list.
FetchFailClearsList(f) ==
  /\ BagIn(f, fetches)
  /\ f.stage = "sent"
  /\ fetches' = BagRemove(fetches, f)
  /\ loading' = IF mounted THEN FALSE ELSE loading
  /\ chatItems' = <<>>
  /\ output' = [alert |-> Nothing, log |-> LogLoadFailed]
  /\ UNCHANGED <<serverVars, sideVars, searchVars, firebaseUser, mounted,
                 focused, deletes, pendingRuns, socketRef, orphans, storeVars>>

\* getIdToken or fetch throws, or the response is not ok: the catch block
\* logs, then finally setLoading(false).
FetchFail(f) ==
  /\ BagIn(f, fetches)
  /\ f.stage = "sent"
  /\ fetches' = BagRemove(fetches, f)
  /\ loading' = IF mounted THEN FALSE ELSE loading
  /\ output' = [alert |-> Nothing, log |-> LogLoadFailed]
  /\ UNCHANGED <<serverVars, sideVars, searchVars, firebaseUser, mounted,
                 focused, chatItems, deletes, pendingRuns, socketRef, orphans,
                 storeVars>>

\* The screen gains focus: useFocusEffect calls loadChats().
Focus ==
  /\ mounted /\ ~focused
  /\ CanIssue
  /\ focused' = TRUE
  /\ LET r == LoadChats(firebaseUser, FALSE) IN
       /\ fetches' = r.fetches
       /\ loading' = r.loading
  /\ output' = Quiet
  /\ UNCHANGED <<serverVars, sideVars, searchVars, firebaseUser, mounted,
                 chatItems, deletes, pendingRuns, socketRef, orphans,
                 storeVars>>

Blur ==
  /\ mounted /\ focused
  /\ focused' = FALSE
  /\ output' = Quiet
  /\ UNCHANGED <<serverVars, sideVars, searchVars, firebaseUser, mounted,
                 chatItems, loading, fetches, deletes, pendingRuns, socketRef,
                 orphans, storeVars>>

\* Pull to refresh on the list: onRefresh={() => loadChats(true)}. The
\* FlatList is rendered only while the filtered list has items.
PullRefresh ==
  /\ mounted /\ focused
  /\ filteredChatItems # <<>>
  /\ CanIssue
  /\ LET r == LoadChats(firebaseUser, TRUE) IN
       /\ fetches' = r.fetches
       /\ loading' = r.loading
  /\ output' = Quiet
  /\ UNCHANGED <<serverVars, sideVars, searchVars, firebaseUser, mounted,
                 focused, chatItems, deletes, pendingRuns, socketRef, orphans,
                 storeVars>>

\* The search box is on screen unless the spinner replaces the whole view.
SearchBoxShown == mounted /\ ~(loading /\ chatItems = <<>>)

\* onChangeText={setSearchTerm}: the user edits the search box; after the
\* render the search effect recomputes the filtered list.
SetSearchTerm(term) ==
  /\ SearchBoxShown /\ focused
  /\ term # searchTerm
  /\ searchTerm' = term
  /\ filteredChatItems' = FilterChatItems(chatItems, term)
  /\ output' = Quiet
  /\ UNCHANGED <<serverVars, sideVars, firebaseUser, mounted, focused,
                 chatItems, loading, fetches, deletes, pendingRuns, socketRef,
                 orphans, storeVars>>

\* ---- inbox socket effect (the isMounted version)

\* One run of the effect after `let isMounted = true`, awaiting getIdToken.
EffectRun(user) == [user |-> user, isMounted |-> TRUE]

\* `isMounted = false` of the cleanup, seen by the run that owns the flag.
MarkUnmounted(B) ==
  LET off(r) == [r EXCEPT !.isMounted = FALSE]
      S == {off(r) : r \in BagToSet(B)}
      n(x) == IF BagIn(x, B) THEN B[x] ELSE 0
  IN [x \in S |-> n(x) + n([x EXCEPT !.isMounted = TRUE])]

\* The cleanup `() => { isMounted = false; socketRef.current?.disconnect(); }`
\* exists only for a run that got past `if (!firebaseUser) return`.
CleanupRuns(user) == IF user = NoUser THEN pendingRuns ELSE MarkUnmounted(pendingRuns)
CleanupRef(user) == IF user = NoUser THEN socketRef ELSE NullSocket

\* Room for one more effect run within the bound.
CanRun == BagCardinality(pendingRuns) + orphans < MaxRuns

\* useAuth() gives another firebaseUser (sign-in, sign-out, other account):
\* the screen re-renders, the socket effect is cleaned up and run again,
\* and the focus effect calls the new loadChats if the screen has focus.
UserChange(v) ==
  /\ mounted
  /\ v # firebaseUser
  /\ v # NoUser => CanRun
  /\ (focused /\ v # NoUser) => CanIssue
  /\ firebaseUser' = v
  /\ pendingRuns' = IF v = NoUser THEN CleanupRuns(firebaseUser)
                    ELSE BagAdd(CleanupRuns(firebaseUser), EffectRun(v))
  /\ socketRef' = CleanupRef(firebaseUser)
  /\ LET r == LoadChats(v, FALSE) IN
       /\ fetches' = IF focused THEN r.fetches ELSE fetches
       /\ loading' = IF focused THEN r.loading ELSE loading
  /\ output' = Quiet
  /\ UNCHANGED <<serverVars, sideVars, searchVars, mounted, focused, chatItems,
                 deletes, orphans, storeVars>>

\* getIdToken of an effect run resolves: io(BASE_URL, ...) opens a socket;
\* a run whose isMounted is false returns, a live run stores the socket in
\* the ref and attaches the listeners.
RunTokenResolved(r) ==
  /\ BagIn(r, pendingRuns)
  /\ pendingRuns' = BagRemove(pendingRuns, r)
  /\ IF ~r.isMounted
       THEN /\ orphans' = orphans + 1
            /\ UNCHANGED socketRef
       ELSE /\ socketRef' = [user |-> r.user, open |-> TRUE]
            /\ orphans' = IF socketRef.open THEN orphans + 1 ELSE orphans
  /\ output' = Quiet
  /\ UNCHANGED <<serverVars, sideVars, searchVars, firebaseUser, mounted,
                 focused, chatItems, loading, fetches, deletes, storeVars>>

\* getIdToken of an effect run rejects: catch, 'Socket init failed'.
RunTokenFailed(r) ==
  /\ BagIn(r, pendingRuns)
  /\ pendingRuns' = BagRemove(pendingRuns, r)
  /\ output' = [alert |-> Nothing, log |-> LogSocketFailed]
  /\ UNCHANGED <<serverVars, sideVars, searchVars, firebaseUser, mounted,
                 focused, chatItems, loading, fetches, deletes, socketRef,
                 orphans, storeVars>>

\* socket.on('chat-activity', () => { loadChats(true); }) on the socket of
\* the ref; loadChats is the one of the run that attached the listener.
ChatActivity ==
  /\ socketRef.open
  /\ CanIssue
  /\ LET r == LoadChats(socketRef.user, TRUE) IN
       /\ fetches' = r.fetches
       /\ loading' = r.loading
  /\ output' = Quiet
  /\ UNCHANGED <<serverVars, sideVars, searchVars, firebaseUser, mounted,
                 focused, chatItems, deletes, pendingRuns, socketRef, orphans,
                 storeVars>>

\* The transport of the socket of the ref comes up (again): the 'connect'
\* listener logs. (Whether the transport is up is not kept: the events of
\* the socket are inputs that can arrive whenever the socket is open.)
SocketConnect ==
  /\ socketRef.open
  /\ output' = [alert |-> Nothing, log |-> LogConnected]
  /\ UNCHANGED <<serverVars, sideVars, searchVars, firebaseUser, mounted,
                 focused, chatItems, loading, fetches, deletes, pendingRuns,
                 socketRef, orphans, storeVars>>

\* A 'disconnect' listener that empties the list.
SocketDisconnectClearsList ==
  /\ socketRef.open
  /\ chatItems' = <<>>
  /\ output' = [alert |-> Nothing, log |-> LogDisconnected]
  /\ UNCHANGED <<serverVars, sideVars, searchVars, firebaseUser, mounted,
                 focused, loading, fetches, deletes, pendingRuns, socketRef,
                 orphans, storeVars>>

\* The transport of the socket of the ref goes down: the 'disconnect'
\* listener logs; the socket stays in the ref and reconnects by itself.
SocketDisconnect ==
  /\ socketRef.open
  /\ output' = [alert |-> Nothing, log |-> LogDisconnected]
  /\ UNCHANGED <<serverVars, sideVars, searchVars, firebaseUser, mounted,
                 focused, chatItems, loading, fetches, deletes, pendingRuns,
                 socketRef, orphans, storeVars>>

\* The server refuses the handshake (the middleware called next(err)): the
\* socket emits 'connect_error', for which no listener is registered.
SocketConnectError ==
  /\ socketRef.open
  /\ output' = Quiet
  /\ UNCHANGED <<serverVars, sideVars, searchVars, firebaseUser, mounted,
                 focused, chatItems, loading, fetches, deletes, pendingRuns,
                 socketRef, orphans, storeVars>>

\* The screen is torn down: the cleanup of the socket effect runs.
Unmount ==
  /\ mounted
  /\ mounted' = FALSE
  /\ focused' = FALSE
  /\ pendingRuns' = CleanupRuns(firebaseUser)
  /\ socketRef' = CleanupRef(firebaseUser)
  /\ output' = Quiet
  /\ UNCHANGED <<serverVars, sideVars, searchVars, firebaseUser, chatItems,
                 loading, fetches, deletes, orphans, storeVars>>

\* ---- handleDelete

\* The user presses 'Cancel' in the alert of handleDelete(chatId): the
\* swipeable row closes and nothing else happens.
CancelDelete(t) ==
  /\ mounted /\ focused
  /\ t \in Ids(filteredChatItems)
  /\ output' = Quiet
  /\ UNCHANGED <<serverVars, sideVars, searchVars, firebaseUser, mounted,
                 focused, chatItems, loading, fetches, deletes, pendingRuns,
                 socketRef, orphans, storeVars>>

\* A handleDelete that takes the thread out of the list before asking the
\* store.
HandleDeleteOptimistic(t) ==
  /\ mounted /\ focused
  /\ firebaseUser # NoUser
  /\ t \in Ids(filteredChatItems)
  /\ BagCardinality(deletes) + Cardinality(hidden) < MaxDeletes
  /\ deletes' = BagAdd(deletes, [user |-> firebaseUser, chatId |-> t, stage |-> "sent"])
  /\ chatItems' = SelectSeq(chatItems, LAMBDA item : item.chatId # t)
  /\ filteredChatItems' = FilterChatItems(chatItems', searchTerm)
  /\ output' = Quiet
  /\ UNCHANGED <<serverVars, sideVars, searchTerm, firebaseUser, mounted,
                 focused, loading, fetches, pendingRuns, socketRef, orphans,
                 storeVars>>

\* The user confirms 'Delete' in the alert of handleDelete(chatId): the
\* DELETE request leaves with the token of the rendered firebaseUser.
\* (With no user the token call throws and only the error alert shows.)
HandleDelete(t) ==
  /\ mounted /\ focused
  /\ firebaseUser # NoUser
  /\ t \in Ids(filteredChatItems)
  /\ BagCardinality(deletes) + Cardinality(hidden) < MaxDeletes
  /\ deletes' = BagAdd(deletes, [user |-> firebaseUser, chatId |-> t, stage |-> "sent"])
  /\ output' = Quiet
  /\ UNCHANGED <<serverVars, sideVars, searchVars, firebaseUser, mounted,
                 focused, chatItems, loading, fetches, pendingRuns, socketRef,
                 orphans, storeVars>>

\* DELETE /api/chat/threads/:chatId commits: the thread is deleted for the
\* requesting user and the answer is ok.
DeleteCommit(d) ==
  /\ BagIn(d, deletes)
  /\ d.stage = "sent"
  /\ <<d.user, d.chatId>> \notin hidden
  /\ hidden' = hidden \cup {<<d.user, d.chatId>>}
  /\ deletes' = BagAdd(BagRemove(deletes, d), [d EXCEPT !.stage = "ok"])
  /\ output' = Quiet
  /\ UNCHANGED <<serverVars, sideVars, searchVars, store, locallyDeleted,
                 firebaseUser, mounted, focused, chatItems, loading, fetches,
                 pendingRuns, socketRef, orphans>>

SelectSeq2(items, t) == SelectSeq(items, LAMBDA item : item.chatId # t)

\* The ok answer arrives: setChatItems(current => current.filter(...)),
\* and after the render the search effect recomputes the filtered list.
DeleteSucceed(d) ==
  /\ BagIn(d, deletes)
  /\ d.stage = "ok"
  /\ deletes' = BagRemove(deletes, d)
  /\ chatItems' = IF mounted THEN SelectSeq2(chatItems, d.chatId) ELSE chatItems
  /\ locallyDeleted' = IF mounted THEN locallyDeleted \cup {<<d.user, d.chatId>>}
                       ELSE locallyDeleted
  /\ filteredChatItems' = IF mounted THEN FilterChatItems(chatItems', searchTerm)
                           ELSE filteredChatItems
  /\ output' = Quiet
  /\ UNCHANGED <<serverVars, sideVars, searchTerm, store, hidden, firebaseUser,
                 mounted, focused, loading, fetches, pendingRuns, socketRef,
                 orphans>>

\* The request fails (token, network, answer not ok or lost): the catch
\* block shows the error alert and the list stays as it is.
DeleteFail(d) ==
  /\ BagIn(d, deletes)
  /\ deletes' = BagRemove(deletes, d)
  /\ output' = [alert |-> AlertError, log |-> LogDeleteFailed]
  /\ UNCHANGED <<serverVars, sideVars, searchVars, firebaseUser, mounted,
                 focused, chatItems, loading, fetches, pendingRuns, socketRef,
                 orphans, storeVars>>

NextClient ==
  \/ \E t \in ChatIds : NewMessage(t)
  \/ \E f \in BagToSet(fetches) : ServerAnswer(f)
  \/ \E f \in BagToSet(fetches) : FetchSucceed(f)
  \/ \E f \in BagToSet(fetches) : FetchFail(f)
  \/ Focus
  \/ Blur
  \/ PullRefresh
  \/ \E v \in Users \cup {NoUser} : UserChange(v)
  \/ \E r \in BagToSet(pendingRuns) : RunTokenResolved(r)
  \/ \E r \in BagToSet(pendingRuns) : RunTokenFailed(r)
  \/ ChatActivity
  \/ Unmount
  \/ \E t \in ChatIds : HandleDelete(t)
  \/ \E t \in ChatIds : CancelDelete(t)
  \/ \E d \in BagToSet(deletes) : DeleteCommit(d)
  \/ \E d \in BagToSet(deletes) : DeleteSucceed(d)
  \/ \E d \in BagToSet(deletes) : DeleteFail(d)

\* ---- push registration effect

\* Notifications.PermissionStatus.
Granted == "granted"
Denied == "denied"
Undetermined == "undetermined"
\* A property the permission result does not have.
Absent == "absent"

\* What getPermissionsAsync / requestPermissionsAsync can resolve with
\* across Expo SDK variants: an object with a status string, with a granted
\* boolean, with both, or with neither (also null).
PermissionResults ==
  [status : {Granted, Denied, Undetermined, Absent}, granted : {"true", "false", Absent}]

\* normalizePermissionStatus(p)
NormalizePermissionStatus(p) ==
  IF p.status # Absent THEN p.status
  ELSE IF p.granted # Absent
    THEN (IF p.granted = "true" THEN Granted ELSE Denied)
    ELSE Undetermined

\* A registerForPushNotifications call of `user` at its first await.
PushRun(user, os) ==
  [user |-> user,
   stage |-> IF os = "android" THEN "channel" ELSE "getPermissions",
   finalStatus |-> Undetermined]

\* The push effect of the render that changed firebaseUser runs:
\* registerForPushNotifications() returns at once without a user, else it
\* goes on to its first await (the Android channel, or the permissions).
PushEffect(os) ==
  /\ mounted
  /\ pushSeen # firebaseUser
  /\ firebaseUser # NoUser => BagCardinality(pushRuns) < MaxPushRuns
  /\ pushSeen' = firebaseUser
  /\ pushRuns' = IF firebaseUser = NoUser THEN pushRuns
                  ELSE BagAdd(pushRuns, PushRun(firebaseUser, os))
  /\ output' = Quiet
  /\ UNCHANGED <<serverVars, storeVars, searchVars, renderVars, authVars,
                 posted, firebaseUser, mounted, focused, chatItems, loading,
                 fetches, deletes, pendingRuns, socketRef, orphans>>

\* What a step of a registration leaves alone: everything but its own
\* run, the requests sent and the alert / log of the step.
PushFrame ==
  UNCHANGED <<serverVars, storeVars, searchVars, renderVars, authVars, pushSeen,
              firebaseUser, mounted, focused, chatItems, loading, fetches, deletes,
              pendingRuns, socketRef, orphans>>

\* The run r moves on to `stage` with the final status `status`.
PushGoesOn(r, stage, status) ==
  /\ pushRuns' = BagAdd(BagRemove(pushRuns, r),
                        [r EXCEPT !.stage = stage, !.finalStatus = status])
  /\ output' = Quiet
  /\ UNCHANGED posted

\* The run r ends, showing `alert` and logging `log`.
PushEnds(r, alert, log) ==
  /\ pushRuns' = BagRemove(pushRuns, r)
  /\ output' = [alert |-> alert, log |-> log]
  /\ UNCHANGED posted

\* setNotificationChannelAsync settles (Android): a rejection is outside
\* the try block and ends the call as an unhandled rejection.
ChannelDone(r, res) ==
  /\ BagIn(r, pushRuns) /\ r.stage = "channel"
  /\ IF res = "throws" THEN PushEnds(r, Nothing, Nothing)
     ELSE PushGoesOn(r, "getPermissions", r.finalStatus)
  /\ PushFrame

\* getPermissionsAsync resolves with p: with a status other than granted
\* the call asks for the permission.
GetPermissionsDone(r, p) ==
  /\ BagIn(r, pushRuns) /\ r.stage = "getPermissions"
  /\ LET finalStatus == NormalizePermissionStatus(p) IN
       IF finalStatus # Granted
         THEN PushGoesOn(r, "requestPermissions", finalStatus)
         ELSE PushGoesOn(r, "expoToken", finalStatus)
  /\ PushFrame

\* A denial that goes on to the push token without telling the user.
RequestPermissionsDoneGoesOn(r, p) ==
  /\ BagIn(r, pushRuns) /\ r.stage = "requestPermissions"
  /\ PushGoesOn(r, "expoToken", NormalizePermissionStatus(p))
  /\ PushFrame

\* requestPermissionsAsync resolves with p: with a final status other than
\* granted the user is told in an alert and the call returns.
RequestPermissionsDone(r, p) ==
  /\ BagIn(r, pushRuns) /\ r.stage = "requestPermissions"
  /\ LET finalStatus == NormalizePermissionStatus(p) IN
       IF finalStatus # Granted
         THEN PushEnds(r, AlertPermissionDenied, Nothing)
         ELSE PushGoesOn(r, "expoToken", finalStatus)
  /\ PushFrame

\* getPermissionsAsync or requestPermissionsAsync rejects: outside the try
\* block, the call ends as an unhandled rejection.
PermissionsThrow(r) ==
  /\ BagIn(r, pushRuns) /\ r.stage \in {"getPermissions", "requestPermissions"}
  /\ PushEnds(r, Nothing, Nothing)
  /\ PushFrame

\* getExpoPushTokenAsync settles: a rejection is caught and logged.
ExpoTokenDone(r, res) ==
  /\ BagIn(r, pushRuns) /\ r.stage = "expoToken"
  /\ IF res = "throws" THEN PushEnds(r, Nothing, LogPushFailed)
     ELSE PushGoesOn(r, "idToken", r.finalStatus)
  /\ PushFrame

\* firebaseUser.getIdToken settles: a rejection is caught and logged, else
\* the POST to /api/users/push-token leaves.
IdTokenDone(r, res) ==
  /\ BagIn(r, pushRuns) /\ r.stage = "idToken"
  /\ IF res = "throws" THEN PushEnds(r, Nothing, LogPushFailed)
     ELSE /\ pushRuns' = BagAdd(BagRemove(pushRuns, r), [r EXCEPT !.stage = "post"])
          /\ posted' = posted \cup {r.user}
          /\ output' = Quiet
  /\ PushFrame

\* What can become of the POST: the backend answers with a success status
\* or with another one, or fetch rejects (network).
PostOutcomes == {"ok", "notOk", "throws"}

\* The POST settles: a rejection of fetch is caught and logged; the
\* response itself is not looked at, whatever its status.
PostDone(r, res) ==
  /\ BagIn(r, pushRuns) /\ r.stage = "post"
  /\ IF res = "throws" THEN PushEnds(r, Nothing, LogPushFailed)
     ELSE PushEnds(r, Nothing, Nothing)
  /\ PushFrame

\* The push registration of the screen: sign-in and sign-out, the socket
\* effect they start, teardown, and the registration calls. A render that
\* changes firebaseUser follows the effects of the one before it.
NextPush ==
  \/ \E v \in Users \cup {NoUser} : pushSeen = firebaseUser /\ UserChange(v)
  \/ \E r \in BagToSet(pendingRuns) : RunTokenResolved(r)
  \/ \E r \in BagToSet(pendingRuns) : RunTokenFailed(r)
  \/ Unmount
  \/ \E os \in {"android", "ios"} : PushEffect(os)
  \/ \E r \in BagToSet(pushRuns), res \in {"ok", "throws"} : ChannelDone(r, res)
  \/ \E r \in BagToSet(pushRuns), p \in PermissionResults : GetPermissionsDone(r, p)
  \/ \E r \in BagToSet(pushRuns), p \in PermissionResults : RequestPermissionsDone(r, p)
  \/ \E r \in BagToSet(pushRuns) : PermissionsThrow(r)
  \/ \E r \in BagToSet(pushRuns), res \in {"ok", "throws"} : ExpoTokenDone(r, res)
  \/ \E r \in BagToSet(pushRuns), res \in {"ok", "throws"} : IdTokenDone(r, res)
  \/ \E r \in BagToSet(pushRuns), res \in PostOutcomes : PostDone(r, res)

\* ---- renderItem

\* renderItem has not been called.
NoRender == <<>>

\* The fixed texts of a row, each as one piece of a string.
Conversation == <<"Conversation">>
ListingPrefix == <<"Listing: ">>
FromPrefix == <<"From: ">>

\* A renderItem that shows every viewer the row of the inquirer.
RenderItemIgnoresOwner(uid, item) ==
  [title |-> IF item.listingTitle # <<>> THEN item.listingTitle ELSE Conversation,
   subtitle |-> FromPrefix \o item.recipientName]

\* renderItem of the FlatList for a viewer whose firebaseUser?.uid is uid:
\* the title and the subtitle of the row (an empty string is falsy, so
\* `item.listingTitle || 'Conversation'` falls back for it).
RenderItem(uid, item) ==
  LET isMeTheOwner == uid = item.listingOwnerFirebaseUID
      titleToDisplay ==
        IF isMeTheOwner THEN item.recipientName
        ELSE IF item.listingTitle # <<>> THEN item.listingTitle ELSE Conversation
      subtitleToDisplay ==
        IF isMeTheOwner THEN ListingPrefix \o item.listingTitle
        ELSE FromPrefix \o item.recipientName
  IN [title |-> titleToDisplay, subtitle |-> subtitleToDisplay]

\* The viewers and thread summaries renderItem is tried with, and the kind
\* of fetch that brought the summary into the list.
RenderViewers == Users \cup {NoUser}
RenderTitles == {<<>>, <<"A", "b">>, <<"C", "d">>}
RenderNames == {<<>>, <<"A", "l">>, <<"B", "o">>}
RenderTriggers == {"focus", "activity"}
RenderInputs ==
  {[viewer |-> v, trigger |-> g,
    item |-> [chatId |-> 1, lastMessageTimestamp |-> 0, listingTitle |-> t,
              listingOwnerFirebaseUID |-> o, recipientName |-> n]] :
     v \in RenderViewers, g \in RenderTriggers, t \in RenderTitles,
     o \in Users, n \in RenderNames}

\* The FlatList calls renderItem for the summary.
Render ==
  /\ renderInput \in RenderInputs
  /\ renderOutput = NoRender
  /\ renderOutput' = <<RenderItem(renderInput.viewer, renderInput.item)>>
  /\ UNCHANGED <<serverVars, screenVars, storeVars, searchVars, pushVars,
                 authVars, renderInput>>

NextRender == Render

\* =========================================================== AuthProvider
\* FIREBASE_AUTH before onAuthStateChanged has reported anything.
AuthUnknown == "unknown"

\* mongoUser when it is null.
NoRecord == [firebaseUID |-> "null", _id |-> "null"]

\* userData of the answer of POST /api/auth/sync-user to a request with
\* the ID token of user u: the directory record of u.
SyncedRecord(u) == [firebaseUID |-> u, _id |-> MongoIdOf(u)]

InitAuth ==
  /\ fbAuth = AuthUnknown
  /\ authState = [firebaseUser |-> NoUser, mongoUser |-> NoRecord, isLoading |-> TRUE]
  /\ syncs = EmptyBag
  /\ callbackFinished = FALSE

\* What the steps of the AuthProvider leave alone.
AuthFrame == UNCHANGED <<serverVars, screenVars, storeVars, searchVars, pushVars,
                         renderVars>>

\* An end of the callback that leaves isLoading as it is.
CallbackEndsKeepsLoading(record) ==
  /\ authState' = [authState EXCEPT !.mongoUser = record]
  /\ callbackFinished' = TRUE

\* The end of an auth-state callback: setMongoUser(record), then
\* setIsLoading(false).
CallbackEnds(record) ==
  /\ authState' = [authState EXCEPT !.mongoUser = record, !.isLoading = FALSE]
  /\ callbackFinished' = TRUE

\* Firebase reports a sign-in or a sign-out: the callback calls
\* setFirebaseUser(user); without a user it ends at once, with one it goes
\* on to `await user.getIdToken()`.
AuthStateChanged(user) ==
  /\ user # fbAuth
  /\ fbAuth' = user
  /\ IF user = NoUser
       THEN /\ authState' = [authState EXCEPT !.firebaseUser = NoUser,
                                              !.mongoUser = NoRecord,
                                              !.isLoading = FALSE]
            /\ callbackFinished' = TRUE
            /\ UNCHANGED syncs
       ELSE /\ BagCardinality(syncs) < MaxSyncs
            /\ authState' = [authState EXCEPT !.firebaseUser = user]
            /\ syncs' = BagAdd(syncs, [user |-> user, stage |-> "token", ok |-> FALSE])
            /\ UNCHANGED callbackFinished
  /\ AuthFrame

\* getIdToken of a callback settles: the request leaves, or the catch
\* block ends the callback with setMongoUser(null).
SyncTokenDone(c, res) ==
  /\ BagIn(c, syncs) /\ c.stage = "token"
  /\ IF res = "throws"
       THEN /\ syncs' = BagRemove(syncs, c)
            /\ CallbackEnds(NoRecord)
       ELSE /\ syncs' = BagAdd(BagRemove(syncs, c), [c EXCEPT !.stage = "fetch"])
            /\ UNCHANGED <<authState, callbackFinished>>
  /\ UNCHANGED fbAuth
  /\ AuthFrame

\* What can become of the sync-user request: an answer with a success
\* status or with another one, or fetch rejects (network).
SyncOutcomes == {"ok", "notOk", "throws"}

\* fetch of a callback settles: the callback goes on to `await
\* resp.json()`, or the catch block ends it.
SyncFetchDone(c, res) ==
  /\ BagIn(c, syncs) /\ c.stage = "fetch"
  /\ IF res = "throws"
       THEN /\ syncs' = BagRemove(syncs, c)
            /\ CallbackEnds(NoRecord)
       ELSE /\ syncs' = BagAdd(BagRemove(syncs, c),
                               [c EXCEPT !.stage = "json", !.ok = (res = "ok")])
            /\ UNCHANGED <<authState, callbackFinished>>
  /\ UNCHANGED fbAuth
  /\ AuthFrame

\* Bodies of the answer: JSON with a userData record, JSON without one,
\* the JSON value null, or text that is not JSON.
SyncBodies == {"record", "noUserData", "null", "unparsable"}

\* What the callback hands to setMongoUser once resp.json() has settled:
\* a body that does not parse throws into the catch block (null); an
\* answer that is ok gives `data.userData || null`, where reading userData
\* of the value null throws into the catch block as well; an answer that
\* is not ok gives null.
MongoUserFrom(c, body) ==
  IF body = "unparsable" THEN NoRecord
  ELSE IF c.ok
    THEN (IF body = "record" THEN SyncedRecord(c.user) ELSE NoRecord)
    ELSE NoRecord

\* resp.json() of a callback settles: setMongoUser, setIsLoading(false).
SyncJsonDone(c, body) ==
  /\ BagIn(c, syncs) /\ c.stage = "json"
  /\ syncs' = BagRemove(syncs, c)
  /\ CallbackEnds(MongoUserFrom(c, body))
  /\ UNCHANGED fbAuth
  /\ AuthFrame

NextAuth ==
  \/ \E user \in Users \cup {NoUser} : AuthStateChanged(user)
  \/ \E c \in BagToSet(syncs), res \in {"ok", "throws"} : SyncTokenDone(c, res)
  \/ \E c \in BagToSet(syncs), res \in SyncOutcomes : SyncFetchDone(c, res)
  \/ \E c \in BagToSet(syncs), body \in SyncBodies : SyncJsonDone(c, body)

\* The list logic of the screen together with the search box: sign-in,
\* focus, snapshots, deletes and edits of the search term.
NextSearch ==
  \/ \E t \in ChatIds : NewMessage(t)
  \/ \E f \in BagToSet(fetches) : ServerAnswer(f)
  \/ \E f \in BagToSet(fetches) : FetchSucceed(f)
  \/ \E f \in BagToSet(fetches) : FetchFail(f)
  \/ Focus
  \/ Blur
  \/ PullRefresh
  \/ \E v \in Users \cup {NoUser} : UserChange(v)
  \/ \E term \in SearchTerms : SetSearchTerm(term)
  \/ \E t \in ChatIds : HandleDelete(t)
  \/ \E d \in BagToSet(deletes) : DeleteCommit(d)
  \/ \E d \in BagToSet(deletes) : DeleteSucceed(d)
  \/ \E d \in BagToSet(deletes) : DeleteFail(d)

\* The list of the screen next to everything that happens around it: the
\* events of the inbox socket and the push registration, with focus and
\* snapshots (no new messages and no deletes here).
NextFrame ==
  \/ \E f \in BagToSet(fetches) : ServerAnswer(f)
  \/ \E f \in BagToSet(fetches) : FetchSucceed(f)
  \/ \E f \in BagToSet(fetches) : FetchFail(f)
  \/ Focus
  \/ \E v \in Users \cup {NoUser} : pushSeen = firebaseUser /\ UserChange(v)
  \/ \E r \in BagToSet(pendingRuns) : RunTokenResolved(r)
  \/ \E r \in BagToSet(pendingRuns) : RunTokenFailed(r)
  \/ ChatActivity
  \/ SocketConnect
  \/ SocketDisconnect
  \/ SocketConnectError
  \/ \E os \in {"android", "ios"} : PushEffect(os)
  \/ \E r \in BagToSet(pushRuns), res \in {"ok", "throws"} : ChannelDone(r, res)
  \/ \E r \in BagToSet(pushRuns), p \in PermissionResults : GetPermissionsDone(r, p)
  \/ \E r \in BagToSet(pushRuns), p \in PermissionResults : RequestPermissionsDone(r, p)
  \/ \E r \in BagToSet(pushRuns) : PermissionsThrow(r)
  \/ \E r \in BagToSet(pushRuns), res \in {"ok", "throws"} : ExpoTokenDone(r, res)
  \/ \E r \in BagToSet(pushRuns), res \in {"ok", "throws"} : IdTokenDone(r, res)
  \/ \E r \in BagToSet(pushRuns), res \in PostOutcomes : PostDone(r, res)

\* ========================================================= specifications
InitSide ==
  /\ pushSeen = NoUser
  /\ pushRuns = EmptyBag
  /\ posted = {}
  /\ renderInput = NoRender
  /\ renderOutput = NoRender
  /\ InitAuth

Init == InitServer /\ InitStore /\ InitScreen /\ InitSide

SpecServer == Init /\ [][NextServer]_vars
SpecClient == Init /\ [][NextClient]_vars
SpecSearch == Init /\ [][NextSearch]_vars
SpecPush == Init /\ [][NextPush]_vars
SpecFrame == Init /\ [][NextFrame]_vars
SpecAuth == Init /\ [][NextAuth]_vars

\* renderItem alone, for every viewer and thread summary of RenderInputs.
InitRender ==
  /\ InitServer /\ InitStore /\ InitScreen
  /\ pushSeen = NoUser /\ pushRuns = EmptyBag /\ posted = {}
  /\ InitAuth
  /\ renderInput \in RenderInputs
  /\ renderOutput = NoRender
SpecRender == InitRender /\ [][NextRender]_vars

\* ================================================================= claims
\* ---- server

\* The middleware has not let the connection through: it is still inside
\* one of its awaits, or it called next() with an error.
Unauthenticated(c) ==
  \/ phase[c] \in {"idle", "verifying", "finding"}
  \/ rejectReason[c] # NoError

\* The connection handler has run for c.
HandlerRan(c) == phase[c] \in {"connected", "closed"}

\* C1: a connection that has not completed authentication successfully is
\* a member of no channel and the connection handler never runs for it,
\* also while verifyIdToken or User.findOne are pending.
C1_NoChannelBeforeAuth ==
  \A c \in Conns : Unauthenticated(c) => (rooms[c] = {} /\ ~HandlerRan(c))

\* C1 witness: one connection refused after both awaits (unknown user) while
\* another one is still inside the verification, both in no room.
C1_Witness ==
  \E c, d \in Conns :
    /\ phase[c] = "rejected" /\ lookup[c] = "null"
    /\ phase[d] \in {"verifying", "finding"}
    /\ rooms[c] = {} /\ rooms[d] = {}

\* C2 (as claimed): the rooms of a connection are within its own user's
\* inbox channel and the thread channels; never another user's inbox.
C2_MembershipWithinOwnScope ==
  \A c \in Conns :
    rooms[c] \subseteq ({InboxChannel(socketData[c].mongoUserId)} \cup ThreadChannels)

\* C8: after a connection disconnects it is a member of zero channels,
\* however many thread channels it joined before.
C8_DisconnectLeavesNothing ==
  \A c \in Conns : phase[c] = "closed" => rooms[c] = {}

\* C8 witness: a closed connection whose last call for both threads was a
\* join (it was in two thread channels and its inbox when it closed).
C8_Witness ==
  \E c \in Conns :
    /\ phase[c] = "closed"
    /\ \A t \in Threads : lastCall[c][t] = "join"
    /\ rooms[c] = {}

\* C9: join and leave are idempotent (joining a room the connection is in,
\* or leaving one it is not in, gives the same set of rooms), and a live
\* connection is a member of a thread channel exactly when its most recent
\* call for it was a join.
C9_JoinLeaveNetEffect ==
  \A c \in Conns :
    phase[c] = "connected" =>
      /\ \A t \in Threads :
           ThreadChannel(t) \in rooms[c] <=> lastCall[c][t] = "join"
      /\ \A ch \in Channels :
           /\ ch \in rooms[c] => SocketJoin(rooms[c], ch) = rooms[c]
           /\ ch \notin rooms[c] => SocketLeave(rooms[c], ch) = rooms[c]

\* C9 witness: a live connection that left one thread after joining it and
\* is still in the other one.
C9_Witness ==
  \E c \in Conns, t, u \in Threads :
    /\ phase[c] = "connected"
    /\ lastCall[c][t] = "leave" /\ ThreadChannel(t) \notin rooms[c]
    /\ lastCall[c][u] = "join" /\ ThreadChannel(u) \in rooms[c]

\* C10: each authentication failure cause has its own reason: missing
\* credential, failed verification, verified identity without a directory
\* record; the three reasons are pairwise distinct.
C10_DistinctRejectReasons ==
  /\ ErrMissing # ErrUnauthorized
  /\ ErrMissing # ErrUserNotFound
  /\ ErrUserNotFound # ErrUnauthorized
  /\ \A c \in Conns :
       phase[c] = "rejected" =>
         /\ TokenMissing(handshake[c]) => rejectReason[c] = ErrMissing
         /\ (~TokenMissing(handshake[c]) /\ ~VerifyIdToken(handshake[c]).ok)
              => rejectReason[c] = ErrUnauthorized
         /\ (VerifyIdToken(handshake[c]).ok /\ lookup[c] = "null")
              => rejectReason[c] = ErrUserNotFound

\* C10 witness: an unknown user and a failed verification refused side by
\* side, with different reasons.
C10_Witness ==
  \E c, d \in Conns :
    /\ phase[c] = "rejected" /\ lookup[c] = "null"
    /\ rejectReason[c] = ErrUserNotFound
    /\ phase[d] = "rejected" /\ handshake[d].kind = "bad"
    /\ rejectReason[d] = ErrUnauthorized

\* The user identity the middleware resolves from the credential of c: the
\* directory id of the uid Firebase decodes from the handshake token.
ResolvedIdentity(c) == UserFindOne(VerifyIdToken(handshake[c]).uid)._id

\* C11: the step that takes an authenticated connection out of the
\* middleware is the connection handler, and it leaves the connection in
\* exactly one room, the inbox channel of the identity resolved from its own
\* credential; no joinRoom of the client comes before it.
C11_AutoJoinOwnInbox ==
  [][\A c \in Conns :
       (phase[c] = "authorized" /\ phase'[c] # "authorized")
       => /\ phase'[c] = "connected"
          /\ rooms[c] = {}
          /\ rooms'[c] = {InboxChannel(ResolvedIdentity(c))}
          /\ lastCall[c] = [t \in Threads |-> "none"]]_vars

\* C11 witness: a connection of A right after its handler ran, in A's inbox
\* channel without having sent any joinRoom, next to a connection of B in
\* B's inbox channel.
C11_Witness ==
  \E c, d \in Conns :
    /\ phase[c] = "connected" /\ handshake[c].uid = "A"
    /\ rooms[c] = {InboxChannel("mA")}
    /\ lastCall[c] = [t \in Threads |-> "none"]
    /\ phase[d] = "connected" /\ handshake[d].uid = "B"
    /\ InboxChannel("mB") \in rooms[d]

\* The inbox channel of the user the connection c was authenticated as.
OwnInbox(c) == InboxChannel(socketData[c].mongoUserId)

\* c and d are two live connections of one user, both in the user's inbox
\* channel.
SameUserPair(c, d) ==
  /\ c # d
  /\ phase[c] = "connected" /\ phase[d] = "connected"
  /\ socketData[c].mongoUserId = socketData[d].mongoUserId
  /\ OwnInbox(c) \in rooms[c] /\ OwnInbox(d) \in rooms[d]

\* C22: of two live connections of one user, both in the user's inbox
\* channel, a disconnect, joinRoom or leaveRoom of one leaves the rooms of
\* the other as they are: the other stays connected and in the inbox
\* channel.
C22_OtherDeviceUntouched ==
  [][\A c, d \in Conns :
       ( /\ SameUserPair(c, d)
         /\ \/ Disconnect(c)
            \/ \E ch \in Channels : JoinRoom(c, ch) \/ LeaveRoom(c, ch) )
       => /\ rooms'[d] = rooms[d]
          /\ phase'[d] = "connected"
          /\ OwnInbox(d) \in rooms'[d]]_vars

\* C22 witness: one device of A has disconnected after joining a thread
\* channel; the other device of A is live, in A's inbox channel and in a
\* thread channel.
C22_Witness ==
  \E c, d \in Conns :
    /\ phase[c] = "closed" /\ phase[d] = "connected"
    /\ socketData[c].firebaseUID = "A" /\ socketData[d].firebaseUID = "A"
    /\ \E t \in Threads : lastCall[c][t] = "join"
    /\ OwnInbox(d) \in rooms[d]
    /\ \E t \in Threads : ThreadChannel(t) \in rooms[d]

\* C23 (as claimed): a live authenticated connection is a member of its
\* own user's inbox channel, whatever joinRoom and leaveRoom messages it
\* sent.
C23_InboxMembershipKept ==
  \A c \in Conns : phase[c] = "connected" => OwnInbox(c) \in rooms[c]

\* ---- chats screen

\* C3 (as claimed): activity events that arrive while a snapshot fetch is
\* in flight are coalesced: handling an event never leaves two fetches of
\* the session in flight together.
C3_EventsCoalesced ==
  [][ChatActivity => InFlightFor(socketRef.user)' <= 1]_vars

\* Last-message timestamp shown for thread t in a list that contains it.
ShownTs(items, t) ==
  LET i == CHOOSE k \in 1..Len(items) : items[k].chatId = t
  IN items[i].lastMessageTimestamp

\* C4 (as claimed): once the user's delete of thread T has removed T from
\* the local list, a snapshot of the same session that arrives afterwards
\* does not bring T back. (In the store a deleted thread stays deleted, so
\* a snapshot that still contains T was requested before the deletion.)
C4_DeletedStaysGone ==
  [][\A f \in BagToSet(fetches), t \in ChatIds :
       ( /\ FetchSucceed(f)
         /\ f.user = firebaseUser
         /\ <<f.user, t>> \in locallyDeleted
         /\ t \notin Ids(chatItems) )
       => t \notin Ids(chatItems')]_vars

\* C5 (as claimed): the last-message timestamp shown for a thread never
\* decreases from one state of the local list to the next.
C5_TimestampMonotonic ==
  [][\A t \in Ids(chatItems) \cap Ids(chatItems') :
       ShownTs(chatItems', t) >= ShownTs(chatItems, t)]_vars

\* C6 (as claimed): the result of a fetch that completes after its session
\* ended (sign-out, other user, teardown) is discarded: the local list
\* stays as it is.
C6_StaleFetchDiscarded ==
  [][\A f \in BagToSet(fetches) :
       (FetchSucceed(f) /\ (f.user # firebaseUser \/ ~mounted))
       => chatItems' = chatItems]_vars

\* C7 (as claimed): after sign-out or teardown, once no effect run is
\* still retrieving its token, every socket the screen opened is
\* disconnected.
C7_SocketsClosedAfterTeardown ==
  ((firebaseUser = NoUser \/ ~mounted) /\ pendingRuns = EmptyBag)
    => (~socketRef.open /\ orphans = 0)

C13_FailureSurfaced ==
  [][\A f \in BagToSet(fetches) :
       FetchFail(f) =>
         \/ output'.alert # Nothing
         \/ LoadChatsPromise("failed") # LoadChatsPromise("ok")]_vars

\* C14: with a user signed in, every chat-activity event received on the
\* inbox socket and every gain of focus issues one more snapshot fetch for
\* that user, whatever happened to the fetches before it (a failure
\* disables nothing).
C14_EventsIssueFetch ==
  [][/\ ChatActivity =>
          /\ socketRef.user = firebaseUser /\ firebaseUser # NoUser
          /\ fetches' = BagAdd(fetches, Issued(firebaseUser))
     /\ (Focus /\ firebaseUser # NoUser) =>
          fetches' = BagAdd(fetches, Issued(firebaseUser))]_vars

\* C14 witness: the first fetch failed (nothing is hidden, yet the list is
\* empty and the loading flag is off) and an activity event on the open
\* inbox socket has issued a new one.
C14_Witness ==
  /\ firebaseUser # NoUser /\ socketRef.open
  /\ chatItems = <<>> /\ hidden = {} /\ ~loading
  /\ output = Quiet
  /\ fetches = SetToBag({Issued(firebaseUser)})

\* C20: when a snapshot fetch succeeds on the mounted screen for the user
\* who is still signed in, the local list becomes exactly the snapshot of
\* the response: same items, same order, nothing kept from the old list.
C20_SnapshotReplacesList ==
  [][\A f \in BagToSet(fetches) :
       (FetchSucceed(f) /\ mounted /\ f.user = firebaseUser)
       => chatItems' = f.data]_vars

\* C20 witness: a thread was deleted in the store, no local delete has
\* touched the list, and the list holds one thread only: a snapshot
\* replaced the two-thread list and the deleted thread was not kept.
C20_Witness ==
  /\ mounted /\ firebaseUser # NoUser
  /\ \E t \in ChatIds : <<firebaseUser, t>> \in hidden /\ t \notin Ids(chatItems)
  /\ locallyDeleted = {}
  /\ Len(chatItems) = 1
  /\ fetches = EmptyBag /\ output = Quiet

\* The list is in the order of the list endpoint: by last-message
\* timestamp descending, ties by chat id ascending.
Ordered(items) ==
  \A i, j \in 1..Len(items) : i < j => Before(items[i], items[j])

CasePairs == {<<"a", "A">>, <<"b", "B">>, <<"c", "C">>}
SameLetter(a, b) == a = b \/ <<a, b>> \in CasePairs \/ <<b, a>> \in CasePairs

\* str contains term, compared letter by letter without regard to case.
ContainsIgnoringCase(str, term) ==
  \E i \in 1..Len(str) :
    /\ i + Len(term) - 1 <= Len(str)
    /\ \A k \in 1..Len(term) : SameLetter(str[i + k - 1], term[k])

\* The projection of a list by a search term: every item for the empty
\* term, else the items whose listing title or counterpart name contains
\* the term, in the order of the list.
Projection(items, term) ==
  IF term = <<>> THEN items
  ELSE SelectSeq(items, LAMBDA item :
         \/ ContainsIgnoringCase(item.listingTitle, term)
         \/ ContainsIgnoringCase(item.recipientName, term))

ClaimedRow(viewer, item) ==
  IF viewer = item.listingOwnerFirebaseUID
    THEN [title |-> item.recipientName, subtitle |-> ListingPrefix \o item.listingTitle]
    ELSE [title |-> item.listingTitle, subtitle |-> FromPrefix \o item.recipientName]

\* The same rule, with the fixed title 'Conversation' for a viewer who is
\* not the owner when the listing title is empty.
RowWithFallback(viewer, item) ==
  IF viewer # item.listingOwnerFirebaseUID /\ item.listingTitle = <<>>
    THEN [ClaimedRow(viewer, item) EXCEPT !.title = Conversation]
    ELSE ClaimedRow(viewer, item)

\* C16 (as claimed): for every viewer and thread summary the owner sees the
\* counterpart's name over "Listing: <title>" and anybody else the listing
\* title over "From: <name>"; the row is a function of the viewer and the
\* summary alone, whatever fetch brought the summary.
C16_RowAsClaimed ==
  renderOutput # NoRender =>
    renderOutput = <<ClaimedRow(renderInput.viewer, renderInput.item)>>

\* C16 (amended): the same, except that a viewer who is not the owner sees
\* the title 'Conversation' when the listing title is empty.
C16_RowWithFallback ==
  renderOutput # NoRender =>
    renderOutput = <<RowWithFallback(renderInput.viewer, renderInput.item)>>

\* C16 witness: a thread whose listing title is empty, rendered for the
\* inquirer after an event-triggered fetch: 'Conversation' over "From: Bo".
C16_Witness ==
  /\ renderOutput # NoRender
  /\ renderInput.trigger = "activity"
  /\ renderInput.viewer = "A" /\ renderInput.item.listingOwnerFirebaseUID = "B"
  /\ renderInput.item.listingTitle = <<>>
  /\ renderOutput = <<[title |-> Conversation, subtitle |-> FromPrefix \o <<"B", "o">>]>>

\* ---- push registration

\* The stages of a registration from the retrieval of the push token on.
TokenStages == {"expoToken", "idToken", "post"}

\* C18: a registration retrieves the push token and sends the request only
\* with the final permission status granted; when the status after the
\* permission request is not granted, the call ends in that step with one
\* 'Permission Denied' alert and no request; the alert shows in no other
\* step.
C18_RegistrationOnlyWhenGranted ==
  [][/\ \A r \in BagToSet(pushRuns') :
          r.stage \in TokenStages => r.finalStatus = Granted
     /\ \A r \in BagToSet(pushRuns), p \in PermissionResults :
          (RequestPermissionsDone(r, p) /\ NormalizePermissionStatus(p) # Granted)
          => /\ output' = [alert |-> AlertPermissionDenied, log |-> Nothing]
             /\ pushRuns' = BagRemove(pushRuns, r)
             /\ posted' = posted
     /\ output'.alert = AlertPermissionDenied =>
          \E r \in BagToSet(pushRuns) :
            r.stage = "requestPermissions" /\ pushRuns' = BagRemove(pushRuns, r)
     /\ posted' # posted =>
          \E r \in BagToSet(pushRuns) :
            /\ r.stage = "idToken" /\ r.finalStatus = Granted
            /\ posted' = posted \cup {r.user}]_vars

\* C18 witness: the signed-in user has just been told that the permission
\* is denied; the registration is over and no request was ever sent.
C18_Witness ==
  /\ firebaseUser # NoUser /\ pushSeen = firebaseUser
  /\ output.alert = AlertPermissionDenied
  /\ pushRuns = EmptyBag
  /\ posted = {}

\* C19 (as claimed): every step in which a registration fails (the push
\* token or the ID token cannot be retrieved, the request throws, or the
\* backend answers with a status that is not a success) logs the failure,
\* shows the user nothing, and leaves the list and the socket alone.
C19_RegistrationFailureLogged ==
  [][\A r \in BagToSet(pushRuns) :
       ( \/ ExpoTokenDone(r, "throws")
         \/ IdTokenDone(r, "throws")
         \/ PostDone(r, "throws")
         \/ PostDone(r, "notOk") )
       => /\ output' = [alert |-> Nothing, log |-> LogPushFailed]
          /\ chatItems' = chatItems
          /\ socketRef' = socketRef]_vars

\* ---- what changes the list

\* A step of the socket effect or of one of its listeners.
SocketStep ==
  \/ ChatActivity
  \/ SocketConnect
  \/ SocketDisconnect
  \/ SocketConnectError
  \/ \E r \in BagToSet(pendingRuns) : RunTokenResolved(r) \/ RunTokenFailed(r)

\* A step of the push registration.
PushStep ==
  \/ \E os \in {"android", "ios"} : PushEffect(os)
  \/ \E r \in BagToSet(pushRuns), res \in {"ok", "throws"} :
       ChannelDone(r, res) \/ ExpoTokenDone(r, res) \/ IdTokenDone(r, res)
  \/ \E r \in BagToSet(pushRuns), p \in PermissionResults :
       GetPermissionsDone(r, p) \/ RequestPermissionsDone(r, p)
  \/ \E r \in BagToSet(pushRuns) : PermissionsThrow(r)
  \/ \E r \in BagToSet(pushRuns), res \in PostOutcomes : PostDone(r, res)

\* C21: a chat-activity event, a connect, a disconnect or a refused
\* handshake of the inbox socket, the end of a socket effect run (socket
\* opened, or initialisation failed) and every step of the push
\* registration leave the local list as it is; a step that changes the
\* list is the arrival of a snapshot or of the answer to a delete.
C21_ListChangesOnlyBySnapshotOrDelete ==
  [][/\ (SocketStep \/ PushStep) => chatItems' = chatItems
     /\ chatItems' # chatItems =>
          \/ \E f \in BagToSet(fetches) : FetchSucceed(f)
          \/ \E d \in BagToSet(deletes) : DeleteSucceed(d)]_vars

\* C21 witness: the inbox socket has just dropped its transport while the
\* screen shows two threads, a push-token request is on its way and the
\* fetch of an activity event is in flight.
C21_Witness ==
  /\ output.log = LogDisconnected
  /\ Len(chatItems) = 2
  /\ \E r \in BagToSet(pushRuns) : r.stage = "post"
  /\ socketRef.open /\ fetches # EmptyBag

\* ---- deletes

\* Position of the thread t in a list that contains it.
PosOf(items, t) == CHOOSE k \in 1..Len(items) : items[k].chatId = t

\* `after` is `before` without the thread t: the same summaries but the one
\* of t, each once, in the same relative order.
RemovedExactly(before, after, t) ==
  /\ Ids(after) = Ids(before) \ {t}
  /\ Len(after) = Cardinality(Ids(after))
  /\ \A i \in 1..Len(after) : after[i] = before[PosOf(before, after[i].chatId)]
  /\ \A i, j \in 1..Len(after) :
       i < j => PosOf(before, after[i].chatId) < PosOf(before, after[j].chatId)

\* C24: the answer to a delete takes the thread out of the list of the
\* mounted screen only when the store has committed the delete of that
\* thread, and then the list loses exactly that thread; sending the
\* request, the commit in the store, a failed request and a cancelled
\* confirmation leave the list as it is.
C24_DeleteOnlyAfterSuccess ==
  [][/\ \A d \in BagToSet(deletes) :
          (DeleteSucceed(d) /\ mounted) =>
            /\ d.stage = "ok" /\ <<d.user, d.chatId>> \in hidden
            /\ RemovedExactly(chatItems, chatItems', d.chatId)
     /\ \A d \in BagToSet(deletes) :
          (DeleteFail(d) \/ DeleteCommit(d)) => chatItems' = chatItems
     /\ \A t \in ChatIds :
          (HandleDelete(t) \/ CancelDelete(t)) => chatItems' = chatItems]_vars

\* C24 witness: the signed-in user deleted thread 1 of a two-thread list:
\* the store has committed it, the answer has arrived and the list holds
\* thread 2 alone.
C24_Witness ==
  /\ mounted /\ firebaseUser # NoUser
  /\ hidden = {<<firebaseUser, 1>>}
  /\ locallyDeleted = {<<firebaseUser, 1>>}
  /\ deletes = EmptyBag
  /\ Ids(chatItems) = {2}

\* ---- whose threads the list holds

\* The summary was built by the list endpoint for user u.
FetchedFor(item, u) ==
  u \in Users /\ item = Item(u, item.chatId, item.lastMessageTimestamp)

\* C25 (as claimed): in every state the local list holds only summaries
\* fetched for the user who is signed in now; with nobody signed in it is
\* empty.
C25_ListOfCurrentUserOnly ==
  \A i \in 1..Len(chatItems) : FetchedFor(chatItems[i], firebaseUser)

\* ---- loading flag

\* C27 (as claimed, its first part): on the mounted screen that has gained
\* focus, whenever no snapshot fetch is in flight the loading flag is
\* false, also with nobody signed in. (The second part of the claim is
\* about which call issued a fetch, which the fetches of the model do not
\* record; every completion sets the flag to false, see FetchSucceed and
\* FetchFail.)
C27_LoadingFalseWhenIdle ==
  (mounted /\ focused /\ fetches = EmptyBag) => ~loading

\* ---- AuthProvider

\* C26 (as claimed): whenever mongoUser is not null, firebaseUser is not
\* null and mongoUser is the synced record of that firebaseUser.
C26_MongoUserOfCurrentUser ==
  authState.mongoUser # NoRecord =>
    /\ authState.firebaseUser # NoUser
    /\ authState.mongoUser = SyncedRecord(authState.firebaseUser)

\* C28: once an auth-state callback has run to its end, whatever became of
\* its sync-user request, isLoading is false; and isLoading never goes
\* from false to true.
C28_IsLoadingSettles ==
  /\ [](callbackFinished => ~authState.isLoading)
  /\ [][~authState.isLoading => ~authState'.isLoading]_vars

\* C28 witness: the callback of a signed-in user has ended with mongoUser
\* null (its sync-user request failed or gave no record), no callback is
\* pending and isLoading is false.
C28_Witness ==
  /\ callbackFinished /\ ~authState.isLoading
  /\ authState.firebaseUser # NoUser
  /\ authState.mongoUser = NoRecord
  /\ syncs = EmptyBag

=============================================================================
